---- MODULE Spec2Model ----
(***************************************************************************)
(* Model of saythanks/storage.py: the Note and Inbox storage models over   *)
(* the two tables `inboxes` and `notes`.  Every operation is one SQL       *)
(* statement (autocommit) on the shared connection, so every operation is  *)
(* one atomic action.                                                      *)
(***************************************************************************)
EXTENDS Integers, Sequences, FiniteSets, TLC

VARIABLES
    inboxes,            \* table inboxes: a set of rows
    notes,              \* table notes: notes[u] is the row whose uuid is u
    clock,              \* the latest timestamp the storage gave (0: none yet)
    has_audio_column,   \* whether table notes has the column audio_path
    ret,                \* the last call: operation, arguments, outcome
    scan                \* the caller's walk over the pages of Inbox.notes

vars == <<inboxes, notes, clock, has_audio_column, ret, scan>>

----------------------------------------------------------------------------
(* Bounds of the model *)

\* Capacity of table notes.
MaxNotes == 2

----------------------------------------------------------------------------
(* Values *)

\* Python's None and a value that is set.
None == <<>>
Some(v) == <<v>>

\* Strings that are matched or lower-cased are sequences of characters.
Slugs == {"x", "y"}
AuthIds == {"a1", "a2"}
Emails == {"e1"}
Bodies == {<<"a", "B">>, <<"c">>}
Bylines == {<<"A", "b">>, <<"d">>}
SearchStrs == {<<"A", "b">>, <<"D">>}
AudioPaths == {None, Some(""), Some("v.webm")}
Uuids == 1..MaxNotes
\* Pages run one past the last page of a full table of one-note pages.
Pages == 1..(MaxNotes + 1)
PageSizes == 1..MaxNotes

\* `if self.audio_path:` -- None and the empty string are false.
Truthy(opt) == opt # None /\ opt[1] # ""

\* Note.__init__ followed by the assignments of Note.from_inbox.
from_inbox(inbox, body, byline, archived, uuid, timestamp, audio_path) ==
    [body |-> body, byline |-> byline, uuid |-> uuid, archived |-> archived,
     inbox |-> Some(inbox), timestamp |-> timestamp, audio_path |-> audio_path]

----------------------------------------------------------------------------
(* Table inboxes *)

\* SELECT * FROM inboxes WHERE slug = :slug
InboxRows(rows, slug) == {r \in rows : r.slug = slug}

\* Inbox.does_exist
does_exist(rows, slug) == InboxRows(rows, slug) # {}

\* Inbox.auth_id: r[0]['auth_id'], IndexError (None here) without a row.
auth_id(rows, slug) ==
    IF InboxRows(rows, slug) = {} THEN None
    ELSE Some((CHOOSE r \in InboxRows(rows, slug) : TRUE).auth_id)

\* Inbox.is_linked
is_linked(rows, a) == \E r \in rows : r.auth_id = a

\* The row an INSERT of (slug, auth_id, email) creates; both flags take the
\* column default.
NewInboxRow(slug, a, email) ==
    [slug |-> slug, auth_id |-> a, email |-> email,
     email_enabled |-> TRUE, enabled |-> TRUE]

\* inboxes(slug unique, auth_id unique): the INSERT raises UniqueViolation.
UniqueViolation(rows, slug, a) ==
    \E r \in rows : r.slug = slug \/ r.auth_id = a

\* A store that overwrites the row of a slug already taken.
StoreRowsOverwrite(rows, slug, a, email) ==
    {r \in rows : r.slug # slug /\ r.auth_id # a} \cup {NewInboxRow(slug, a, email)}

\* Inbox.store: the INSERT, with UniqueViolation caught and logged.  The
\* handler is taken to catch the conflict conn.execute reports, as its
\* docstring says.
StoreRows(rows, slug, a, email) ==
    IF UniqueViolation(rows, slug, a) THEN rows
    ELSE rows \cup {NewInboxRow(slug, a, email)}

\* An update of `enabled` that resets email_enabled with it.
SetEnabledBoth(rows, slug, v) ==
    {IF r.slug = slug THEN [r EXCEPT !.enabled = v, !.email_enabled = v] ELSE r
        : r \in rows}

\* update inboxes set enabled = :v where slug = :slug
SetEnabled(rows, slug, v) ==
    {IF r.slug = slug THEN [r EXCEPT !.enabled = v] ELSE r : r \in rows}

\* update inboxes set email_enabled = :v where slug = :slug
SetEmailEnabled(rows, slug, v) ==
    {IF r.slug = slug THEN [r EXCEPT !.email_enabled = v] ELSE r : r \in rows}

\* Inbox.is_enabled / Inbox.is_email_enabled on a registered slug.
is_enabled(rows, slug) == (CHOOSE r \in InboxRows(rows, slug) : TRUE).enabled
is_email_enabled(rows, slug) ==
    (CHOOSE r \in InboxRows(rows, slug) : TRUE).email_enabled

----------------------------------------------------------------------------
(* Table notes *)

\* The row INSERT INTO notes ... RETURNING uuid creates: uuid, archived and
\* timestamp take the column defaults (fresh uuid, false, now()).
NewNoteRow(u, body, byline, a, t, audio) ==
    [uuid |-> u, body |-> body, byline |-> byline, inboxes_auth_id |-> a,
     archived |-> FALSE, timestamp |-> t, audio_path |-> audio]

\* now() at an INSERT: later than every timestamp given so far, or, when the
\* clock has not moved since the last INSERT, equal to the latest one.  Only
\* the order of timestamps matters, so "later" is the next integer.
NowValues(db, c) == IF db = <<>> THEN {c + 1} ELSE {c, c + 1}

\* An archive that flips the flag.
ArchiveRowsToggle(db, uuid) ==
    [u \in DOMAIN db |->
        IF Some(u) = uuid THEN [db[u] EXCEPT !.archived = ~@] ELSE db[u]]

\* UPDATE notes SET archived = 't' WHERE uuid = :uuid
ArchiveRows(db, uuid) ==
    [u \in DOMAIN db |->
        IF Some(u) = uuid THEN [db[u] EXCEPT !.archived = TRUE] ELSE db[u]]

\* Note.does_exist
note_does_exist(db, uuid) == \E u \in DOMAIN db : Some(u) = uuid

\* Note.fetch: body and byline of the row, the uuid asked for; every other
\* attribute keeps the None of __init__.
fetch(db, u) ==
    [body |-> db[u].body, byline |-> db[u].byline, uuid |-> Some(u),
     archived |-> None, inbox |-> None, timestamp |-> None, audio_path |-> None]

\* No walk over the pages of Inbox.notes is under way.
NoScan == [active |-> FALSE]

----------------------------------------------------------------------------
(* Initial state: empty tables; the schema has the audio column or not. *)

Init ==
    /\ inboxes = {}
    /\ notes = <<>>
    /\ clock = 0
    /\ has_audio_column \in BOOLEAN
    /\ ret = [op |-> "init"]
    /\ scan = NoScan

----------------------------------------------------------------------------
(* Inbox: registration and flags *)

InboxStore(slug, a, email) ==
    /\ inboxes' = StoreRows(inboxes, slug, a, email)
    /\ ret' = [op |-> "Inbox.store", slug |-> slug, auth_id |-> a,
               email |-> email, raised |-> FALSE, inbox |-> slug]
    /\ scan' = NoScan
    /\ UNCHANGED <<notes, clock, has_audio_column>>

DisableEmail(slug) ==
    /\ inboxes' = SetEmailEnabled(inboxes, slug, FALSE)
    /\ ret' = [op |-> "disable_email", slug |-> slug]
    /\ scan' = NoScan
    /\ UNCHANGED <<notes, clock, has_audio_column>>

EnableEmail(slug) ==
    /\ inboxes' = SetEmailEnabled(inboxes, slug, TRUE)
    /\ ret' = [op |-> "enable_email", slug |-> slug]
    /\ scan' = NoScan
    /\ UNCHANGED <<notes, clock, has_audio_column>>

DisableAccount(slug) ==
    /\ inboxes' = SetEnabled(inboxes, slug, FALSE)
    /\ ret' = [op |-> "disable_account", slug |-> slug]
    /\ scan' = NoScan
    /\ UNCHANGED <<notes, clock, has_audio_column>>

EnableAccount(slug) ==
    /\ inboxes' = SetEnabled(inboxes, slug, TRUE)
    /\ ret' = [op |-> "enable_account", slug |-> slug]
    /\ scan' = NoScan
    /\ UNCHANGED <<notes, clock, has_audio_column>>

----------------------------------------------------------------------------
(* Note: submit (from_inbox + store), archive, fetch *)

\* Whether Note.store raises: no INSERT was prepared (the column exists and
\* no audio path was given: q is unbound), or self.inbox.auth_id finds no row.
StoreRaises(rows, slug, audio) ==
    \/ has_audio_column /\ ~Truthy(audio)
    \/ auth_id(rows, slug) = None

SubmitNoteRaise(slug, body, byline, audio) ==
    /\ StoreRaises(inboxes, slug, audio)
    /\ ret' = [op |-> "submit_note", slug |-> slug, body |-> body,
               byline |-> byline, audio_path |-> audio, raised |-> TRUE,
               rows_before |-> Len(notes),
               note |-> from_inbox(slug, body, byline, Some(FALSE), None, None,
                                   audio)]
    /\ scan' = NoScan
    /\ UNCHANGED <<inboxes, notes, clock, has_audio_column>>

SubmitNoteStore(slug, body, byline, audio) ==
    /\ ~StoreRaises(inboxes, slug, audio)
    /\ Len(notes) < MaxNotes
    /\ \E t \in NowValues(notes, clock) :
        /\ clock' = t
        /\ notes' = Append(notes,
              NewNoteRow(Len(notes) + 1, body, byline,
                         auth_id(inboxes, slug)[1], t,
                         IF has_audio_column THEN audio ELSE None))
    /\ ret' = [op |-> "submit_note", slug |-> slug, body |-> body,
               byline |-> byline, audio_path |-> audio, raised |-> FALSE,
               rows_before |-> Len(notes),
               note |-> from_inbox(slug, body, byline, Some(FALSE),
                                   Some(Len(notes) + 1), None, audio)]
    /\ scan' = NoScan
    /\ UNCHANGED <<inboxes, has_audio_column>>

SubmitNote(slug, body, byline, audio) ==
    \/ SubmitNoteRaise(slug, body, byline, audio)
    \/ SubmitNoteStore(slug, body, byline, audio)

NoteArchive(uuid) ==
    /\ notes' = ArchiveRows(notes, uuid)
    /\ ret' = [op |-> "archive", uuid |-> uuid,
               was_archived |-> \E u \in DOMAIN notes :
                                    Some(u) = uuid /\ notes[u].archived]
    /\ scan' = NoScan
    /\ UNCHANGED <<inboxes, clock, has_audio_column>>

NoteFetch(u) ==
    /\ ret' = IF u \in DOMAIN notes
              THEN [op |-> "fetch", uuid |-> u, raised |-> FALSE,
                    note |-> fetch(notes, u)]
              ELSE [op |-> "fetch", uuid |-> u, raised |-> TRUE]
    /\ scan' = NoScan
    /\ UNCHANGED <<inboxes, notes, clock, has_audio_column>>


----------------------------------------------------------------------------
(* Inbox: listings *)

Min(a, b) == IF a <= b THEN a ELSE b

\* The orders in which a query may return the rows S.
Perms(S) ==
    {p \in [1..Cardinality(S) -> S] :
        \A i, j \in 1..Cardinality(S) : i # j => p[i] # p[j]}

\* ORDER BY timestamp DESC: rows of equal timestamp come in any order, and
\* not in the same order at every execution.
OrderByTimestampDesc(db, S) ==
    {p \in Perms(S) :
        \A i \in 1..(Cardinality(S) - 1) :
            db[p[i]].timestamp >= db[p[i + 1]].timestamp}

\* LIMIT :limit OFFSET :offset
LimitOffset(p, limit, offset) ==
    SubSeq(p, offset + 1, Min(offset + limit, Len(p)))

\* notes[::-1]
Reversed(s) == [i \in 1..Len(s) |-> s[Len(s) + 1 - i]]

\* str.lower / LOWER over the characters of the model.
LowerChar(c) == CASE c = "A" -> "a" [] c = "B" -> "b" [] OTHER -> c
Lower(s) == [i \in 1..Len(s) |-> LowerChar(s[i])]

\* text LIKE pattern: % matches any run of characters, _ any one character.
RECURSIVE Like(_, _)
Like(text, pattern) ==
    IF pattern = <<>> THEN text = <<>>
    ELSE IF Head(pattern) = "%"
         THEN \/ Like(text, Tail(pattern))
              \/ text # <<>> /\ Like(Tail(text), pattern)
         ELSE /\ text # <<>>
              /\ Head(pattern) = "_" \/ Head(pattern) = Head(text)
              /\ Like(Tail(text), Tail(pattern))

\* WHERE inboxes_auth_id = :auth_id AND archived = 'f'
ActiveUuids(db, a) ==
    {u \in DOMAIN db : db[u].inboxes_auth_id = a /\ ~db[u].archived}

\* A listing of the archive that forgets the archived flag.
ArchivedUuidsAnyFlag(db, a) == {u \in DOMAIN db : db[u].inboxes_auth_id = a}

\* WHERE inboxes_auth_id = :auth_id AND archived = 't'
ArchivedUuids(db, a) ==
    {u \in DOMAIN db : db[u].inboxes_auth_id = a /\ db[u].archived}

\* WHERE (LOWER(body) LIKE '%' || :param || '%'
\*        OR LOWER(byline) LIKE '%' || :param || '%')
\*   AND inboxes_auth_id = :auth_id AND archived = 'f'
SearchUuids(db, a, param) ==
    {u \in ActiveUuids(db, a) :
        \/ Like(Lower(db[u].body), <<"%">> \o param \o <<"%">>)
        \/ Like(Lower(db[u].byline), <<"%">> \o param \o <<"%">>)}

\* The Note list Inbox.notes and Inbox.search_notes build from the rows.
ListedNotes(db, slug, result) ==
    [i \in 1..Len(result) |->
        from_inbox(slug, db[result[i]].body, db[result[i]].byline,
                   Some(db[result[i]].archived), Some(db[result[i]].uuid),
                   Some(db[result[i]].timestamp), None)]

\* The Note list Inbox.archived_notes builds: no timestamp is passed.
ArchivedListedNotes(db, slug, r) ==
    [i \in 1..Len(r) |->
        from_inbox(slug, db[r[i]].body, db[r[i]].byline,
                   Some(db[r[i]].archived), Some(db[r[i]].uuid), None, None)]

\* (total_notes + page_size - 1) // page_size
TotalPages(total_notes, page_size) == (total_notes + page_size - 1) \div page_size

\* The walk of a caller that reads page 1, 2, ... of one inbox with one page
\* size: the uuids read so far.  Any other call ends the walk.
ScanStep(slug, page, page_size, result, total_pages) ==
    IF page = 1
    THEN [active |-> TRUE, slug |-> slug, page_size |-> page_size, next |-> 2,
          acc |-> result, total_pages |-> total_pages]
    ELSE IF /\ scan.active
            /\ scan.slug = slug
            /\ scan.page_size = page_size
            /\ scan.next = page
            /\ page <= scan.total_pages
         THEN [scan EXCEPT !.next = page + 1, !.acc = @ \o result]
         ELSE NoScan

NotesRaise(slug, page, page_size) ==
    /\ auth_id(inboxes, slug) = None
    /\ ret' = [op |-> "notes", slug |-> slug, page |-> page,
               page_size |-> page_size, raised |-> TRUE]
    /\ scan' = NoScan
    /\ UNCHANGED <<inboxes, notes, clock, has_audio_column>>

NotesPage(slug, page, page_size) ==
    /\ auth_id(inboxes, slug) # None
    /\ LET a == auth_id(inboxes, slug)[1]
           total_notes == Cardinality(ActiveUuids(notes, a))
       IN \E p \in OrderByTimestampDesc(notes, ActiveUuids(notes, a)) :
            LET result == LimitOffset(p, page_size, (page - 1) * page_size)
            IN /\ ret' = [op |-> "notes", slug |-> slug, page |-> page,
                          page_size |-> page_size, raised |-> FALSE,
                          notes |-> ListedNotes(notes, slug, result),
                          total_notes |-> total_notes,
                          total_pages |-> TotalPages(total_notes, page_size)]
               /\ scan' = ScanStep(slug, page, page_size, result,
                                   TotalPages(total_notes, page_size))
    /\ UNCHANGED <<inboxes, notes, clock, has_audio_column>>

Notes(slug, page, page_size) ==
    \/ NotesRaise(slug, page, page_size)
    \/ NotesPage(slug, page, page_size)

SearchNotesRaise(slug, search_str, page, page_size) ==
    /\ auth_id(inboxes, slug) = None
    /\ ret' = [op |-> "search_notes", slug |-> slug, search_str |-> search_str,
               page |-> page, page_size |-> page_size, raised |-> TRUE]
    /\ scan' = NoScan
    /\ UNCHANGED <<inboxes, notes, clock, has_audio_column>>

SearchNotesPage(slug, search_str, page, page_size) ==
    /\ auth_id(inboxes, slug) # None
    /\ LET a == auth_id(inboxes, slug)[1]
           found == SearchUuids(notes, a, Lower(search_str))
       IN \E p \in OrderByTimestampDesc(notes, found) :
            LET result == LimitOffset(p, page_size, (page - 1) * page_size)
                \* COUNT(*) OVER() of the first row returned, or 0
                total_notes == IF result # <<>> THEN Cardinality(found) ELSE 0
            IN ret' = [op |-> "search_notes", slug |-> slug,
                       search_str |-> search_str, page |-> page,
                       page_size |-> page_size, raised |-> FALSE,
                       notes |-> ListedNotes(notes, slug, result),
                       total_notes |-> total_notes,
                       total_pages |-> TotalPages(total_notes, page_size)]
    /\ scan' = NoScan
    /\ UNCHANGED <<inboxes, notes, clock, has_audio_column>>

SearchNotes(slug, search_str, page, page_size) ==
    \/ SearchNotesRaise(slug, search_str, page, page_size)
    \/ SearchNotesPage(slug, search_str, page, page_size)

ArchivedNotesRaise(slug) ==
    /\ auth_id(inboxes, slug) = None
    /\ ret' = [op |-> "archived_notes", slug |-> slug, raised |-> TRUE]
    /\ scan' = NoScan
    /\ UNCHANGED <<inboxes, notes, clock, has_audio_column>>

ArchivedNotesList(slug) ==
    /\ auth_id(inboxes, slug) # None
    /\ \E r \in Perms(ArchivedUuids(notes, auth_id(inboxes, slug)[1])) :
         ret' = [op |-> "archived_notes", slug |-> slug, raised |-> FALSE,
                 notes |-> Reversed(ArchivedListedNotes(notes, slug, r))]
    /\ scan' = NoScan
    /\ UNCHANGED <<inboxes, notes, clock, has_audio_column>>

ArchivedNotes(slug) ==
    \/ ArchivedNotesRaise(slug)
    \/ ArchivedNotesList(slug)

----------------------------------------------------------------------------
(* Specifications *)

\* The texts of the notes in the specifications that do not read them.
PlainBodies == {<<"c">>}
PlainBylines == {<<"d">>}

Register == \E slug \in Slugs, a \in AuthIds, email \in Emails :
                InboxStore(slug, a, email)

Flags ==
    \/ \E slug \in Slugs : DisableEmail(slug)
    \/ \E slug \in Slugs : EnableEmail(slug)
    \/ \E slug \in Slugs : DisableAccount(slug)
    \/ \E slug \in Slugs : EnableAccount(slug)

Archive == \E uuid \in {Some(u) : u \in Uuids} \cup {None} : NoteArchive(uuid)

Fetch == \E u \in Uuids : NoteFetch(u)

\* Every operation that writes, and Note.fetch.
Next ==
    \/ Register
    \/ Flags
    \/ \E slug \in Slugs, body \in PlainBodies, byline \in PlainBylines,
          audio \in AudioPaths : SubmitNote(slug, body, byline, audio)
    \/ Archive
    \/ Fetch

Spec == Init /\ [][Next]_vars

\* Registration, submission, archival and the two listings.  The flags of an
\* inbox are read by no listing, so their updates are left out.
NextList ==
    \/ Register
    \/ \E slug \in Slugs, body \in PlainBodies, byline \in PlainBylines,
          audio \in AudioPaths : SubmitNote(slug, body, byline, audio)
    \/ Archive
    \/ \E slug \in Slugs, page \in Pages, page_size \in PageSizes :
          Notes(slug, page, page_size)
    \/ \E slug \in Slugs : ArchivedNotes(slug)

SpecList == Init /\ [][NextList]_vars

\* Registration, submission with texts that differ, archival, fetch and search.
NextSearch ==
    \/ Register
    \/ \E slug \in Slugs, body \in Bodies, byline \in Bylines,
          audio \in AudioPaths : SubmitNote(slug, body, byline, audio)
    \/ Archive
    \/ Fetch
    \/ \E slug \in Slugs, search_str \in SearchStrs, page \in Pages,
          page_size \in PageSizes : SearchNotes(slug, search_str, page, page_size)

SpecSearch == Init /\ [][NextSearch]_vars

----------------------------------------------------------------------------
(* Properties *)

\* ceil(n / p), by its definition.
CeilDiv(n, p) == CHOOSE k \in 0..n : k * p >= n /\ (k - 1) * p < n

\* s occurs in text.
Contains(text, s) ==
    \E i \in 0..(Len(text) - Len(s)) : SubSeq(text, i + 1, i + Len(s)) = s

ContainsIgnoringCase(text, s) == Contains(Lower(text), Lower(s))

\* The uuids of a Note list.
UuidsOf(list) == {list[i].uuid[1] : i \in 1..Len(list)}

\* A Note is unpersisted (no uuid) or has both uuid and timestamp.
Whole(n) == n.uuid = None \/ n.timestamp # None

\* C1: submit_note on a registered inbox succeeds for every body, byline and
\* audio path, with or without the audio column, adds exactly one row, and
\* Note.fetch of the returned uuid gives the same body and byline and
\* archived = false.
C1_SubmitThenFetch ==
    (ret.op = "submit_note" /\ does_exist(inboxes, ret.slug)) =>
        /\ ~ret.raised
        /\ Len(notes) = ret.rows_before + 1
        /\ ret.note.uuid # None
        /\ ret.note.uuid[1] \in DOMAIN notes
        /\ fetch(notes, ret.note.uuid[1]).body = ret.body
        /\ fetch(notes, ret.note.uuid[1]).byline = ret.byline
        /\ fetch(notes, ret.note.uuid[1]).archived = Some(FALSE)

\* C2: Inbox.notes reports total_pages = ceil(N / P), and the pages
\* 1..total_pages read with no write in between hold exactly the N
\* non-archived notes of the inbox, each once, by timestamp descending, also
\* when notes share a timestamp.
C2_PagesPartition ==
    /\ (ret.op = "notes" /\ ~ret.raised) =>
          ret.total_pages =
              CeilDiv(Cardinality(ActiveUuids(notes, auth_id(inboxes, ret.slug)[1])),
                      ret.page_size)
    /\ (scan.active /\ scan.next > scan.total_pages) =>
          /\ Len(scan.acc)
                = Cardinality(ActiveUuids(notes, auth_id(inboxes, scan.slug)[1]))
          /\ {scan.acc[i] : i \in 1..Len(scan.acc)}
                = ActiveUuids(notes, auth_id(inboxes, scan.slug)[1])
          /\ \A i, j \in 1..Len(scan.acc) :
                i < j => notes[scan.acc[i]].timestamp >= notes[scan.acc[j]].timestamp

\* C3: Inbox.search_notes returns, for every search string, page and page
\* size, total_notes = the number of non-archived notes of the inbox whose
\* body or byline contains the string ignoring case, and total_pages =
\* ceil(total_notes / page_size).
C3_SearchTotals ==
    (ret.op = "search_notes" /\ ~ret.raised) =>
        LET a == auth_id(inboxes, ret.slug)[1]
            filtered == {u \in ActiveUuids(notes, a) :
                            \/ ContainsIgnoringCase(notes[u].body, ret.search_str)
                            \/ ContainsIgnoringCase(notes[u].byline, ret.search_str)}
        IN /\ ret.total_notes = Cardinality(filtered)
           /\ ret.total_pages = CeilDiv(Cardinality(filtered), ret.page_size)

C5_ListingsDisjoint ==
    /\ (ret.op = "archived_notes" /\ ~ret.raised) =>
          \A i \in 1..Len(ret.notes) :
              /\ ret.notes[i].archived = Some(TRUE)
              /\ ret.notes[i].uuid[1] \in DOMAIN notes
              /\ notes[ret.notes[i].uuid[1]].archived
              /\ Some(notes[ret.notes[i].uuid[1]].inboxes_auth_id)
                    = auth_id(inboxes, ret.slug)
    /\ (ret.op = "notes" /\ ~ret.raised) =>
          \A i \in 1..Len(ret.notes) :
              /\ ret.notes[i].archived = Some(FALSE)
              /\ ret.notes[i].uuid[1] \in DOMAIN notes
              /\ ~notes[ret.notes[i].uuid[1]].archived
              /\ Some(notes[ret.notes[i].uuid[1]].inboxes_auth_id)
                    = auth_id(inboxes, ret.slug)
    /\ \A r \in inboxes :
          ActiveUuids(notes, r.auth_id) \cap ArchivedUuids(notes, r.auth_id) = {}

C5_Witness ==
    /\ ret.op = "archived_notes"
    /\ ~ret.raised
    /\ Len(ret.notes) >= 1
    /\ \E u \in DOMAIN notes :
          ~notes[u].archived /\ Some(notes[u].inboxes_auth_id) = auth_id(inboxes, ret.slug)

\* C6: a note that is archived stays archived whatever operation follows,
\* and archive() on a note already archived changes nothing stored.
C6_ArchiveIdempotent ==
    [][/\ \A u \in DOMAIN notes :
             notes[u].archived => (u \in DOMAIN notes' /\ notes'[u].archived)
       /\ (/\ ret'.op = "archive"
           /\ \E u \in DOMAIN notes : Some(u) = ret'.uuid /\ notes[u].archived)
          => (notes' = notes /\ inboxes' = inboxes /\ clock' = clock)]_vars

C6_Witness == ret.op = "archive" /\ ret.was_archived

\* The rows of new are those of old, with `flag` of the row of slug set to v
\* and no other column of any row changed.
OnlyFlagSet(old, new, slug, flag, v) ==
    /\ \A r \in old : \E r2 \in new :
          /\ r2.slug = r.slug /\ r2.auth_id = r.auth_id /\ r2.email = r.email
          /\ \A f \in {"enabled", "email_enabled"} :
                r2[f] = IF r.slug = slug /\ f = flag THEN v ELSE r[f]
    /\ \A r2 \in new : \E r \in old : r.slug = r2.slug
    /\ Cardinality(new) = Cardinality(old)

\* C7: enable_account / disable_account change only `enabled` of the inbox
\* of that slug, and enable_email / disable_email only its email_enabled;
\* every other column, every other inbox and every note is left as it was.
C7_FlagFrame ==
    [][/\ ret'.op \in {"enable_account", "disable_account"} =>
             /\ OnlyFlagSet(inboxes, inboxes', ret'.slug, "enabled",
                            ret'.op = "enable_account")
             /\ notes' = notes
       /\ ret'.op \in {"enable_email", "disable_email"} =>
             /\ OnlyFlagSet(inboxes, inboxes', ret'.slug, "email_enabled",
                            ret'.op = "enable_email")
             /\ notes' = notes]_vars

C7_Witness ==
    /\ ret.op = "disable_account"
    /\ does_exist(inboxes, ret.slug)
    /\ ~is_enabled(inboxes, ret.slug)
    /\ is_email_enabled(inboxes, ret.slug)
    /\ Cardinality(inboxes) = 2
    /\ notes # <<>>

\* C8: every Note handed to a caller is unpersisted (no uuid) or has both
\* uuid and timestamp, and a store() that fails leaves uuid unset.
C8_NoPartialNote ==
    /\ (ret.op = "submit_note") =>
          /\ Whole(ret.note)
          /\ ret.raised => ret.note.uuid = None
    /\ (ret.op = "fetch" /\ ~ret.raised) => Whole(ret.note)
    /\ (ret.op \in {"notes", "search_notes", "archived_notes"} /\ ~ret.raised) =>
          \A i \in 1..Len(ret.notes) : Whole(ret.notes[i])

\* C9: Inbox.archived_notes returns all archived notes of the inbox by
\* timestamp descending, in whatever order the storage returns the rows.
C9_ArchivedMostRecentFirst ==
    (ret.op = "archived_notes" /\ ~ret.raised) =>
        /\ UuidsOf(ret.notes) = ArchivedUuids(notes, auth_id(inboxes, ret.slug)[1])
        /\ \A i, j \in 1..Len(ret.notes) :
              i < j => notes[ret.notes[i].uuid[1]].timestamp
                          >= notes[ret.notes[j].uuid[1]].timestamp

====
